---- MODULE Spec2Model ----
(***************************************************************************)
(* Resilience layer of the budgeting gateway (resilience.py): the circuit  *)
(* breaker, the retry decorator, the service client built on them and the  *)
(* sliding-window rate limiter.                                            *)
(*                                                                         *)
(* Time is the value of time.time() in whole seconds (variable now).       *)
(* Coroutines interleave only at an await, so every action below is the    *)
(* code that runs between two awaits of one coroutine.                     *)
(***************************************************************************)
EXTENDS Integers, Sequences, FiniteSets, TLC

VARIABLES
    now,                \* time.time()
    \* ---- CircuitBreaker instance (resilience.py 19-30)
    failure_threshold,
    recovery_timeout,
    failure_count,
    last_failure_time,
    state,
    \* ---- coroutines running CircuitBreaker.__call__.wrapper
    calls,              \* slot -> [pc, trial]
    outcome,            \* history: how the last finished call ended
    invoked,            \* history: invocations of the wrapped function
    rejected,           \* history: calls answered with CircuitBreakerError
    streak,             \* history: expected failures in a row since CLOSED/0
    failures_since_reset, \* history: calls ended by an expected exception
                        \* since failure_count was last set to 0
    \* ---- RateLimiter instance (resilience.py 199-202)
    requests_per_window,
    window_seconds,
    requests,           \* dict client_id -> list of timestamps
    rl_log,             \* history: client_id -> the calls of is_allowed, in order
    \* ---- one call of retry_with_exponential_backoff(config)(func)
    config,             \* the RetryConfig the decorator was built with
    r_pc,               \* idle, calling (await func), sleeping (await asyncio.sleep), done
    attempt,            \* the loop variable of line 85
    last_exception,
    result,             \* what the wrapper returned or raised
    func_calls,         \* history: invocations of func by this call of the wrapper
    func_raised,        \* history: invocations of func that raised an Exception
    sleeps,             \* history: the delays slept, in milliseconds
    \* ---- ServiceClient instance and its callers
    retry_config,       \* self.retry_config
    method,             \* the verb of the logical call in progress
    logical_calls,      \* history: get/post/put/delete calls made
    failed_calls,       \* history: those that ended raising
    http_outcome,       \* history: what the last attempt's HTTP request met
    all_unreachable,    \* history: every attempt of the call timed out or
                        \* could not connect
    health,             \* what health_check() returned, the call being one
    \* ---- an application in front of its rate limiter
    app,                \* gateway (gateway_enhanced.py) or ai (ai/routes.py)
    gw_status,          \* status of the response last sent
    pending,            \* requests admitted, their handler not yet run
    handled,            \* history: requests whose route handler ran
    proxied,            \* history: calls made to downstream services
    \* ---- one request to a calculator service
    request,
    response,
    \* ---- one /api/insights/analyze request in the gateway (gateway.py)
    ai_pc,              \* idle, prepare, completion, parse, merge_insights,
                        \* merge_recommendations, merge_fields, done
    insights_data,      \* the dict response.json() gave; its lists are the
                        \* list objects that enhanced_insights shares
    rule_based,         \* history: the insights service's result as received
    ai_content,         \* the content of the completion
    ai_failed,          \* history: the AI enhancement raised
    returned            \* what proxy_to_service returned

cbVars == <<failure_threshold, recovery_timeout, failure_count,
            last_failure_time, state>>
cbCallVars == <<calls, outcome, invoked, rejected, streak,
                failures_since_reset>>

rlVars == <<requests_per_window, window_seconds, requests, rl_log>>

retryVars == <<config, r_pc, attempt, last_exception, result, func_calls,
               func_raised, sleeps>>
scVars == <<retry_config, method, logical_calls, failed_calls, http_outcome,
            all_unreachable, health>>

gwVars == <<app, gw_status, pending, handled, proxied>>
calcVars == <<request, response>>
aiVars == <<ai_pc, insights_data, rule_based, ai_content, ai_failed, returned>>

vars == <<now, cbVars, cbCallVars, rlVars, retryVars, scVars, gwVars, calcVars,
          aiVars>>

\* what the circuit breaker's code does not touch
notCB == <<rlVars, retryVars, scVars, gwVars, calcVars, aiVars>>
\* what the rate limiter's code does not touch
notRL == <<cbVars, cbCallVars, retryVars, scVars, gwVars, calcVars, aiVars>>
\* what the retry wrapper's code does not touch
notRetry == <<now, cbVars, cbCallVars, rlVars, gwVars, calcVars, aiVars>>
\* what an application's admission code does not touch
notGW == <<cbVars, cbCallVars, retryVars, scVars, calcVars, aiVars>>
\* what a calculator does not touch
notCalc == <<now, cbVars, cbCallVars, rlVars, retryVars, scVars, gwVars,
            aiVars>>
\* what the insights proxy does not touch
notAI == <<now, cbVars, cbCallVars, rlVars, retryVars, scVars, gwVars,
          calcVars>>

----------------------------------------------------------------------------
(* Bounds of the model *)

MaxTime == 5
MaxThreshold == 2
MaxRecovery == 2
MaxInFlight == 2
MaxCalls == 4
MaxPerWindow == 2
MaxWindow == 2
MaxRequests == 5
MaxAttempts == 3
MaxLogicalCalls == 4
MaxGWRequests == 3
MaxAmountCents == 600
MaxSavings == 12
MaxFund == 12
MaxGoal == 16
MaxCategory == 12
MaxTotalSavings == 12

----------------------------------------------------------------------------
(* The clock *)

\* time.time() at process start: a positive epoch time
StartTime == 1

Tick ==
    /\ now < MaxTime
    /\ now' = now + 1

----------------------------------------------------------------------------
(* CircuitBreaker *)

\* Optional[float] None of last_failure_time
None == -1

Slots == 1..MaxInFlight

CallOutcomes == {"none", "returned", "raised_expected", "raised_other",
                 "CircuitBreakerError"}

\* Python truthiness of an Optional[float]: None and 0.0 are falsy
Truthy(t) == t # None /\ t # 0

\* line 36: self.last_failure_time and time.time() - self.last_failure_time > self.recovery_timeout
\* (faulty variant: lets a call through at exactly recovery_timeout)
RecoveryElapsed_StrictMut(t, lft, rt) == Truthy(lft) /\ t - lft >= rt
RecoveryElapsed(t, lft, rt) == Truthy(lft) /\ t - lft > rt

\* line 52: self.failure_count >= self.failure_threshold
\* (faulty variant: opens one failure late)
ThresholdReached_OffByOne(fc, th) == fc > th
ThresholdReached(fc, th) == fc >= th

IdleCall == [pc |-> "idle", trial |-> FALSE]

\* the slot a new coroutine takes: the first free one
FreeSlot(c) == calls[c].pc = "idle" /\ \A d \in Slots : d < c => calls[d].pc # "idle"

NoneInFlight == \A c \in Slots : calls[c].pc = "idle"

\* history: the number of expected failures in a row since the breaker was
\* last CLOSED with failure_count = 0; -1 once another outcome came between
StreakAfter(kind, st, fc) ==
    IF st = "CLOSED" /\ fc = 0 THEN 0
    ELSE IF kind = "raised_expected" /\ streak >= 0 THEN streak + 1
    ELSE -1

\* lines 35-41 with state OPEN and the timeout not elapsed: raise CircuitBreakerError
\* (faulty variant: runs the wrapped function before refusing)
CB_Reject_InvokesMut(c) ==
    /\ outcome' = "CircuitBreakerError"
    /\ UNCHANGED calls
    /\ rejected' = rejected + 1
    /\ invoked' = invoked + 1
    /\ UNCHANGED <<cbVars, streak, failures_since_reset>>
CB_Reject(c) ==
    /\ outcome' = "CircuitBreakerError"
    /\ UNCHANGED calls
    /\ rejected' = rejected + 1
    /\ UNCHANGED <<cbVars, invoked, streak, failures_since_reset>>

\* lines 35-44, up to the await of the wrapped function
\* (faulty variant: HALF_OPEN lets no call in besides the trial call)
CB_Enter_SingleTrialMut(c) ==
    /\ FreeSlot(c)
    /\ invoked + rejected < MaxCalls
    /\ IF state = "OPEN" /\ RecoveryElapsed(now, last_failure_time, recovery_timeout)
       THEN /\ state' = "HALF_OPEN"
            /\ calls' = [calls EXCEPT ![c] = [pc |-> "inflight", trial |-> TRUE]]
            /\ invoked' = invoked + 1
            /\ UNCHANGED <<failure_threshold, recovery_timeout, failure_count,
                           last_failure_time, outcome, rejected, streak,
                           failures_since_reset>>
       ELSE IF state \in {"OPEN", "HALF_OPEN"}
            THEN CB_Reject(c)
            ELSE /\ calls' = [calls EXCEPT ![c] =
                       [pc |-> "inflight", trial |-> FALSE]]
                 /\ invoked' = invoked + 1
                 /\ UNCHANGED <<cbVars, outcome, rejected, streak,
                                failures_since_reset>>
    /\ UNCHANGED <<now, notCB>>
CB_Enter(c) ==
    /\ FreeSlot(c)
    /\ invoked + rejected < MaxCalls
    /\ IF state = "OPEN"
       THEN IF RecoveryElapsed(now, last_failure_time, recovery_timeout)
            THEN /\ state' = "HALF_OPEN"
                 /\ calls' = [calls EXCEPT ![c] =
                        [pc |-> "inflight", trial |-> TRUE]]
                 /\ invoked' = invoked + 1
                 /\ UNCHANGED <<failure_threshold, recovery_timeout, failure_count,
                                last_failure_time, outcome, rejected, streak,
                                failures_since_reset>>
            ELSE CB_Reject(c)
       ELSE /\ calls' = [calls EXCEPT ![c] =
                  [pc |-> "inflight", trial |-> FALSE]]
            /\ invoked' = invoked + 1
            /\ UNCHANGED <<cbVars, outcome, rejected, streak,
                           failures_since_reset>>
    /\ UNCHANGED <<now, notCB>>

\* lines 44-49: the wrapped function returned
\* (faulty variant: closes without resetting failure_count)
CB_Return_NoResetMut(c) ==
    /\ calls[c].pc = "inflight"
    /\ IF state = "HALF_OPEN"
       THEN /\ state' = "CLOSED"
            /\ UNCHANGED <<failure_count, failures_since_reset>>
       ELSE UNCHANGED <<state, failure_count, failures_since_reset>>
    /\ calls' = [calls EXCEPT ![c] = IdleCall]
    /\ outcome' = "returned"
    /\ streak' = StreakAfter("returned", state', failure_count')
    /\ UNCHANGED <<now, failure_threshold, recovery_timeout, last_failure_time,
                   invoked, rejected, notCB>>
\* (faulty variant: every success resets failure_count)
CB_Return_ResetsAlwaysMut(c) ==
    /\ calls[c].pc = "inflight"
    /\ state' = IF state = "HALF_OPEN" THEN "CLOSED" ELSE state
    /\ failure_count' = 0
    /\ failures_since_reset' = 0
    /\ calls' = [calls EXCEPT ![c] = IdleCall]
    /\ outcome' = "returned"
    /\ streak' = StreakAfter("returned", state', failure_count')
    /\ UNCHANGED <<now, failure_threshold, recovery_timeout, last_failure_time,
                   invoked, rejected, notCB>>
CB_Return(c) ==
    /\ calls[c].pc = "inflight"
    /\ IF state = "HALF_OPEN"
       THEN /\ state' = "CLOSED"
            /\ failure_count' = 0
            /\ failures_since_reset' = 0
       ELSE UNCHANGED <<state, failure_count, failures_since_reset>>
    /\ calls' = [calls EXCEPT ![c] = IdleCall]
    /\ outcome' = "returned"
    /\ streak' = StreakAfter("returned", state', failure_count')
    /\ UNCHANGED <<now, failure_threshold, recovery_timeout, last_failure_time,
                   invoked, rejected, notCB>>

\* lines 50-56: the wrapped function raised an instance of expected_exception
\* (faulty variant: the increment is lost when another call is in flight)
CB_RaiseExpected_LostMut(c) ==
    /\ calls[c].pc = "inflight"
    /\ failure_count' =
          IF \E d \in Slots : d # c /\ calls[d].pc = "inflight"
          THEN failure_count ELSE failure_count + 1
    /\ IF ThresholdReached(failure_count', failure_threshold)
       THEN /\ state' = "OPEN"
            /\ last_failure_time' = now
       ELSE UNCHANGED <<state, last_failure_time>>
    /\ calls' = [calls EXCEPT ![c] = IdleCall]
    /\ outcome' = "raised_expected"
    /\ streak' = StreakAfter("raised_expected", state', failure_count')
    /\ failures_since_reset' = failures_since_reset + 1
    /\ UNCHANGED <<now, failure_threshold, recovery_timeout, invoked, rejected, notCB>>
CB_RaiseExpected(c) ==
    /\ calls[c].pc = "inflight"
    /\ failure_count' = failure_count + 1
    /\ IF ThresholdReached(failure_count', failure_threshold)
       THEN /\ state' = "OPEN"
            /\ last_failure_time' = now
       ELSE UNCHANGED <<state, last_failure_time>>
    /\ calls' = [calls EXCEPT ![c] = IdleCall]
    /\ outcome' = "raised_expected"
    /\ streak' = StreakAfter("raised_expected", state', failure_count')
    /\ failures_since_reset' = failures_since_reset + 1
    /\ UNCHANGED <<now, failure_threshold, recovery_timeout, invoked, rejected, notCB>>

\* line 44 raising anything else: no except clause matches, the exception propagates
\* (faulty variant: except Exception, counting every exception)
CB_RaiseOther_CountsMut(c) ==
    /\ calls[c].pc = "inflight"
    /\ failure_count' = failure_count + 1
    /\ calls' = [calls EXCEPT ![c] = IdleCall]
    /\ outcome' = "raised_other"
    /\ streak' = StreakAfter("raised_other", state, failure_count')
    /\ UNCHANGED <<now, failure_threshold, recovery_timeout, last_failure_time,
                   state, invoked, rejected, failures_since_reset, notCB>>
CB_RaiseOther(c) ==
    /\ calls[c].pc = "inflight"
    /\ calls' = [calls EXCEPT ![c] = IdleCall]
    /\ outcome' = "raised_other"
    /\ streak' = StreakAfter("raised_other", state, failure_count)
    /\ UNCHANGED <<now, cbVars, invoked, rejected, failures_since_reset, notCB>>

\* a caller that awaits each call before making the next one
CB_EnterSeq(c) == NoneInFlight /\ CB_Enter(c)

\* CircuitBreaker.__init__ with the arguments drawn from the bounds
InitCB ==
    /\ failure_threshold \in 1..MaxThreshold
    /\ recovery_timeout \in 1..MaxRecovery
    /\ failure_count = 0
    /\ last_failure_time = None
    /\ state = "CLOSED"
    /\ calls = [c \in Slots |-> IdleCall]
    /\ outcome = "none"
    /\ invoked = 0
    /\ rejected = 0
    /\ streak = 0
    /\ failures_since_reset = 0

\* a breaker nobody calls: CircuitBreaker() as constructed by default
IdleBreaker ==
    /\ failure_threshold = 5
    /\ recovery_timeout = 60
    /\ failure_count = 0
    /\ last_failure_time = None
    /\ state = "CLOSED"
    /\ calls = [c \in Slots |-> IdleCall]
    /\ outcome = "none"
    /\ invoked = 0
    /\ rejected = 0
    /\ streak = 0
    /\ failures_since_reset = 0

----------------------------------------------------------------------------
(* RateLimiter *)

\* client_id values: client IPs seen by the gateway
Clients == {"10.0.0.1", "10.0.0.2"}

\* lines 210-213: the timestamps kept, those with now - req_time < window_seconds
\* (faulty variant: keeps a timestamp exactly window_seconds old)
Pruned_KeepsBoundaryMut(reqs, t, w) == SelectSeq(reqs, LAMBDA req_time : t - req_time <= w)
\* (faulty variant: drops a timestamp a second before the window has passed)
Pruned_EarlyMut(reqs, t, w) == SelectSeq(reqs, LAMBDA req_time : t - req_time < w - 1)
Pruned(reqs, t, w) == SelectSeq(reqs, LAMBDA req_time : t - req_time < w)

\* line 218: len(self.requests[client_id]) < self.requests_per_window
\* (faulty variant: admits one request too many)
UnderLimit_OffByOneMut(reqs, limit) == Len(reqs) <= limit
UnderLimit(reqs, limit) == Len(reqs) < limit

\* lines 209-215: the client's list after cleaning, created empty when absent
Cleaned(client_id) ==
    IF client_id \in DOMAIN requests
    THEN Pruned(requests[client_id], now, window_seconds)
    ELSE <<>>

\* the value of a dict after d[k] = v
DictSet(d, k, v) == [x \in DOMAIN d \cup {k} |-> IF x = k THEN v ELSE d[x]]

\* history: the number of is_allowed calls made so far
RECURSIVE Logged(_)
Logged(cs) ==
    IF cs = {} THEN 0
    ELSE LET c == CHOOSE x \in cs : TRUE IN Len(rl_log[c]) + Logged(cs \ {c})

\* line 218: the value is_allowed(client_id) returns
Allows(client_id) == UnderLimit(Cleaned(client_id), requests_per_window)

\* (faulty variant: the time of a refused call is recorded too)
IsAllowedCall_RecordsDeniedMut(client_id) ==
    /\ LET kept == IF client_id \in DOMAIN requests
                   THEN SelectSeq(requests[client_id],
                                  LAMBDA req_time : now - req_time < window_seconds)
                   ELSE <<>>
           allowed == Len(kept) < requests_per_window
       IN /\ requests' = [x \in DOMAIN requests \cup {client_id} |->
                             IF x = client_id THEN Append(kept, now)
                             ELSE requests[x]]
          /\ rl_log' = [rl_log EXCEPT ![client_id] =
                            Append(@, [t |-> now, ok |-> allowed])]
    /\ UNCHANGED <<now, requests_per_window, window_seconds>>

\* lines 204-222: what a call of is_allowed(client_id) does to the limiter
IsAllowedCall(client_id) ==
    /\ LET kept == Cleaned(client_id)
           allowed == Allows(client_id)
       IN /\ requests' = DictSet(requests, client_id,
                                 IF allowed THEN Append(kept, now) ELSE kept)
          /\ rl_log' = [rl_log EXCEPT ![client_id] =
                            Append(@, [t |-> now, ok |-> allowed])]
    /\ UNCHANGED <<now, requests_per_window, window_seconds>>

\* lines 204-222: is_allowed(client_id), called on its own
is_allowed(client_id) ==
    /\ Logged(Clients) < MaxRequests
    /\ IsAllowedCall(client_id)
    /\ UNCHANGED notRL

\* RateLimiter.__init__ with the arguments drawn from the bounds
InitLimiter ==
    /\ requests_per_window \in 1..MaxPerWindow
    /\ window_seconds \in 1..MaxWindow
    /\ requests = <<>>
    /\ rl_log = [c \in Clients |-> <<>>]

\* the module's global limiter, line 225, before any request
DefaultLimiter ==
    /\ requests_per_window = 100
    /\ window_seconds = 3600
    /\ requests = <<>>
    /\ rl_log = <<>>

----------------------------------------------------------------------------
(* retry_with_exponential_backoff *)

\* exceptions and results as values: by is the invocation of func that
\* produced it (0: none of them)
NoException == [by |-> 0, status_code |-> 0, detail |-> "None"]
NoResult == [kind |-> "none", by |-> 0, status_code |-> 0, detail |-> "None"]
Returned(by, status) ==
    [kind |-> "returned", by |-> by, status_code |-> status, detail |-> "response"]
Raised(e) ==
    [kind |-> "raised", by |-> e.by, status_code |-> e.status_code, detail |-> e.detail]
\* a BaseException that is no Exception (cancellation): no handler catches it
Propagated(by) ==
    [kind |-> "propagated", by |-> by, status_code |-> 0, detail |-> "BaseException"]
\* line 112
UnexpectedError ==
    [by |-> 0, status_code |-> 0, detail |-> "Unexpected error in retry logic"]

\* RetryConfig(...), lines 63-75; delays in milliseconds
RetryConfig(max_attempts, base_delay, max_delay, exponential_base, jitter) ==
    [max_attempts |-> max_attempts, base_delay |-> base_delay,
     max_delay |-> max_delay, exponential_base |-> exponential_base,
     jitter |-> jitter]

\* RetryConfig(): the defaults of lines 65-69
DefaultRetryConfig == RetryConfig(3, 1000, 60000, 2, TRUE)

RECURSIVE Pow(_, _)
Pow(b, n) == IF n = 0 THEN 1 ELSE b * Pow(b, n - 1)

Min(a, b) == IF a <= b THEN a ELSE b

\* lines 96-99 (faulty variant: max_delay not applied)
BackoffDelay_NoCapMut(cfg, a) == cfg.base_delay * Pow(cfg.exponential_base, a)
BackoffDelay(cfg, a) ==
    Min(cfg.base_delay * Pow(cfg.exponential_base, a), cfg.max_delay)

\* 0.5 + random.random() * 0.5, in thousandths: values of [0.5, 1.0)
JitterFactors == {500, 750, 999}

\* line 104: delay * (0.5 + random.random() * 0.5)
Jittered(delay, f) == (delay * f) \div 1000

\* line 91: attempt == config.max_attempts - 1
\* (faulty variant: gives up one attempt early)
IsLastAttempt_EarlyMut(cfg, a) == a >= cfg.max_attempts - 2
IsLastAttempt(cfg, a) == a = cfg.max_attempts - 1

\* line 93: raise e
\* (faulty variant: raises the previous attempt's exception)
RaiseAtLimit_FirstMut(e, last) == Raised(IF last = NoException THEN e ELSE last)
RaiseAtLimit(e, last) == Raised(e)

\* the wrapper is called: lines 83-87 up to the first await of func, or,
\* with an empty range, lines 110-112
Retry_Start ==
    /\ last_exception' = NoException
    /\ func_raised' = 0
    /\ sleeps' = <<>>
    /\ attempt' = 0
    /\ IF config.max_attempts > 0
       THEN /\ r_pc' = "calling"
            /\ func_calls' = 1
            /\ result' = NoResult
       ELSE /\ r_pc' = "done"
            /\ func_calls' = 0
            /\ result' = Raised(UnexpectedError)
    /\ UNCHANGED config

\* line 87: func returned v
Retry_OnReturn(v) ==
    /\ r_pc = "calling"
    /\ r_pc' = "done"
    /\ result' = v
    /\ UNCHANGED <<config, attempt, last_exception, func_calls, func_raised, sleeps>>

\* lines 88-107: func raised the Exception e
Retry_OnException(e) ==
    /\ r_pc = "calling"
    /\ last_exception' = e
    /\ func_raised' = func_raised + 1
    /\ IF IsLastAttempt(config, attempt)
       THEN /\ r_pc' = "done"
            /\ result' = RaiseAtLimit(e, last_exception)
            /\ UNCHANGED sleeps
       ELSE /\ r_pc' = "sleeping"
            /\ \E f \in JitterFactors :
                  sleeps' = Append(sleeps,
                      IF config.jitter
                      THEN Jittered(BackoffDelay(config, attempt), f)
                      ELSE BackoffDelay(config, attempt))
            /\ UNCHANGED result
    /\ UNCHANGED <<config, attempt, func_calls>>

\* line 87 raising a BaseException that is no Exception: it leaves the wrapper
Retry_OnBaseException ==
    /\ r_pc = "calling"
    /\ r_pc' = "done"
    /\ result' = Propagated(func_calls)
    /\ UNCHANGED <<config, attempt, last_exception, func_calls, func_raised, sleeps>>

\* line 107 returns: the next iteration of line 85, up to the await of func
\* (the loop always has a next iteration here: the last one raised at line 93)
Retry_Wake ==
    /\ r_pc = "sleeping"
    /\ attempt' = attempt + 1
    /\ r_pc' = "calling"
    /\ func_calls' = func_calls + 1
    /\ UNCHANGED <<config, last_exception, result, func_raised, sleeps>>

\* a wrapper nobody has called
IdleRetry ==
    /\ r_pc = "idle"
    /\ attempt = 0
    /\ last_exception = NoException
    /\ result = NoResult
    /\ func_calls = 0
    /\ func_raised = 0
    /\ sleeps = <<>>

\* ---- a decorated function of any kind, called once

\* an Exception raised by invocation n of func
FuncException(n) == [by |-> n, status_code |-> 0, detail |-> "Exception"]

Retry_Call == r_pc = "idle" /\ Retry_Start /\ UNCHANGED <<notRetry, scVars>>
Retry_FuncReturns ==
    Retry_OnReturn(Returned(func_calls, 0)) /\ UNCHANGED <<notRetry, scVars>>
Retry_FuncRaises ==
    Retry_OnException(FuncException(func_calls)) /\ UNCHANGED <<notRetry, scVars>>
Retry_FuncRaisesBase == Retry_OnBaseException /\ UNCHANGED <<notRetry, scVars>>
Retry_SleepDone == Retry_Wake /\ UNCHANGED <<notRetry, scVars>>

\* the configurations the decorator is given
RetryConfigs ==
    {RetryConfig(n, 1000, d, 2, j) :
        n \in 0..MaxAttempts, d \in {1500, 60000}, j \in BOOLEAN}

----------------------------------------------------------------------------
(* ServiceClient *)

\* what one attempt of lines 150-154 meets
HttpOutcomes == {"2xx", "TimeoutException", "ConnectError", "HTTPStatusError",
                 "Exception"}

\* non-2xx statuses of a backend
ErrorStatuses == {404, 500}

\* 2xx statuses of a backend
SuccessStatuses == {200, 204}

\* the statuses a response can carry, by outcome (no response, no status)
StatusesOf(out) ==
    CASE out = "2xx" -> SuccessStatuses
      [] out = "HTTPStatusError" -> ErrorStatuses
      [] OTHER -> {None}

NoOutcome == [out |-> "none", status |-> None]

\* a faulty variant: a timeout reported as 503
MakeRequest_TimeoutAs503Mut(out, status, n) ==
    CASE out = "2xx" -> [kind |-> "returned", by |-> n, status_code |-> status]
      [] out = "HTTPStatusError" ->
            [kind |-> "raised", by |-> n, status_code |-> status,
             detail |-> "Service error"]
      [] out \in {"TimeoutException", "ConnectError"} ->
            [kind |-> "raised", by |-> n, status_code |-> 503,
             detail |-> "Service unavailable"]
      [] OTHER ->
            [kind |-> "raised", by |-> n, status_code |-> 500,
             detail |-> "Unexpected error"]

\* lines 150-169: the result of the body of _make_request, invocation n
MakeRequest(out, status, n) ==
    CASE out = "2xx" -> Returned(n, status)
      [] out = "TimeoutException" ->
            Raised([by |-> n, status_code |-> 504, detail |-> "Service timeout"])
      [] out = "ConnectError" ->
            Raised([by |-> n, status_code |-> 503, detail |-> "Service unavailable"])
      [] out = "HTTPStatusError" ->
            Raised([by |-> n, status_code |-> status, detail |-> "Service error"])
      [] OTHER ->
            Raised([by |-> n, status_code |-> 500, detail |-> "Unexpected error"])

AsException(r) == [by |-> r.by, status_code |-> r.status_code, detail |-> r.detail]

\* lines 171-185: get/post/put/delete call self._make_request, which line 140
\* wraps with retry_with_exponential_backoff(RetryConfig()); the body issues
\* the HTTP request of line 152. self.circuit_breaker is not consulted.
SC_Call(m) ==
    /\ r_pc \in {"idle", "done"}
    /\ logical_calls < MaxLogicalCalls
    /\ method' = m
    /\ logical_calls' = logical_calls + 1
    /\ http_outcome' = NoOutcome
    /\ all_unreachable' = TRUE
    /\ health' = "none"
    /\ Retry_Start
    /\ UNCHANGED <<notRetry, retry_config, failed_calls>>

\* lines 187-193, up to the await of self.get("/health")
SC_HealthCheck ==
    /\ r_pc \in {"idle", "done"}
    /\ logical_calls < MaxLogicalCalls
    /\ method' = "health_check"
    /\ logical_calls' = logical_calls + 1
    /\ http_outcome' = NoOutcome
    /\ all_unreachable' = TRUE
    /\ health' = "pending"
    /\ Retry_Start
    /\ UNCHANGED <<notRetry, retry_config, failed_calls>>

\* lines 190-193: what health_check makes of the end of its get
HealthOf_AnyResponseMut(r) == IF r.kind = "returned" THEN "True" ELSE "False"
HealthOf(r) ==
    IF r.kind = "returned"
    THEN IF r.status_code = 200 THEN "True" ELSE "False"
    ELSE "False"

\* line 152 completes for the attempt in flight
SC_Response(out, status) ==
    /\ LET r == MakeRequest(out, status, func_calls)
       IN IF r.kind = "returned"
          THEN Retry_OnReturn(r)
          ELSE Retry_OnException(AsException(r))
    /\ failed_calls' = IF r_pc' = "done" /\ result'.kind = "raised"
                       THEN failed_calls + 1 ELSE failed_calls
    /\ http_outcome' = [out |-> out, status |-> status]
    /\ all_unreachable' = (/\ all_unreachable
                           /\ out \in {"TimeoutException", "ConnectError"})
    /\ health' = IF method = "health_check" /\ r_pc' = "done"
                 THEN HealthOf(result') ELSE health
    /\ UNCHANGED <<notRetry, retry_config, method, logical_calls>>

\* the backoff sleep ends and the next attempt issues its request
SC_Retry == Retry_Wake /\ UNCHANGED <<notRetry, scVars>>

\* a client nobody has constructed
IdleClient ==
    /\ retry_config = DefaultRetryConfig
    /\ method = "none"
    /\ logical_calls = 0
    /\ failed_calls = 0
    /\ http_outcome = NoOutcome
    /\ all_unreachable = TRUE
    /\ health = "none"

\* ServiceClient.__init__, lines 121-131: the breaker and the retry policy
\* it is given (gateway_enhanced.py 193-196 passes CircuitBreaker(3, 30))
InitClient ==
    /\ \E b \in {<<5, 60>>, <<3, 30>>} :
          /\ failure_threshold = b[1]
          /\ recovery_timeout = b[2]
    /\ failure_count = 0
    /\ last_failure_time = None
    /\ state = "CLOSED"
    /\ calls = [c \in Slots |-> IdleCall]
    /\ outcome = "none"
    /\ invoked = 0
    /\ rejected = 0
    /\ streak = 0
    /\ failures_since_reset = 0
    /\ retry_config \in {DefaultRetryConfig, RetryConfig(1, 1000, 60000, 2, TRUE)}
    /\ method = "none"
    /\ logical_calls = 0
    /\ failed_calls = 0
    /\ http_outcome = NoOutcome
    /\ all_unreachable = TRUE
    /\ health = "none"

----------------------------------------------------------------------------
(* Admission: the gateway's middleware and the AI routes *)

Apps == {"gateway", "ai"}

\* statuses a route handler answers with
HandlerStatuses == {200, 503}

\* line 152 of gateway_enhanced.py, line 46 of ai/routes.py: the request
\* goes on when is_allowed returned true (faulty variant: whatever it returned)
Admit_AlwaysMut(allowed) == TRUE
Admit(allowed) == allowed

\* gateway_enhanced.py 141-164: log_requests up to call_next or the raise
log_requests(client_ip) ==
    /\ app = "gateway"
    /\ Logged(Clients) < MaxGWRequests
    /\ IsAllowedCall(client_ip)
    /\ IF Admit(Allows(client_ip))
       THEN /\ pending' = pending + 1
            /\ UNCHANGED gw_status
       ELSE /\ gw_status' = 429
            /\ UNCHANGED pending
    /\ UNCHANGED <<app, handled, proxied, notGW>>

\* gateway_enhanced.py 170 and 311-355: call_next runs the route handler;
\* a proxied route calls its downstream service, the others answer locally
call_next(proxy, st) ==
    /\ app = "gateway"
    /\ pending > 0
    /\ pending' = pending - 1
    /\ handled' = handled + 1
    /\ proxied' = IF proxy THEN proxied + 1 ELSE proxied
    /\ gw_status' = st
    /\ UNCHANGED <<app, now, rlVars, notGW>>

\* ai/routes.py 43-57 (and 59-77): the handler checks the limiter first
generate_tip(client_id) ==
    /\ app = "ai"
    /\ Logged(Clients) < MaxGWRequests
    /\ IsAllowedCall(client_id)
    /\ IF Admit(Allows(client_id))
       THEN /\ handled' = handled + 1
            /\ gw_status' = 200
       ELSE /\ gw_status' = 429
            /\ UNCHANGED handled
    /\ UNCHANGED <<app, pending, proxied, notGW>>

\* no application in front of the limiter
IdleGateway ==
    /\ app = "none"
    /\ gw_status = None
    /\ pending = 0
    /\ handled = 0
    /\ proxied = 0

----------------------------------------------------------------------------
(* Calculator services *)

(* Decimal values are integers of a fixed unit: the amounts of a request   *)
(* in thousandths (a request may carry more decimals than two), amounts    *)
(* quantized to 0.01 in cents, percentages quantized to 0.1 in tenths.     *)

NoRequest == [service |-> "none"]
NoResponse == [status |-> None]

\* FastAPI's answer to a body that fails the request model
ValidationError == [status |-> 422]

IdleCalculators ==
    /\ request = NoRequest
    /\ response = NoResponse

\* (n / d).quantize(Decimal("1"), rounding=ROUND_HALF_UP) for n >= 0, d > 0
\* (faulty variant: the quotient truncated)
RoundHalfUpDiv_TruncMut(n, d) == n \div d
RoundHalfUpDiv(n, d) ==
    IF 2 * (n % d) >= d THEN (n \div d) + 1 ELSE n \div d

\* (a * m / d) rounded half-up, a >= 0: the whole multiples of d in a give
\* whole multiples of m, the rest of a is rounded
MulDiv(a, m, d) == (a \div d) * m + RoundHalfUpDiv((a % d) * m, d)

\* ---- budget-service

Durations == {"daily", "weekly", "monthly"}

\* line 14: le=1000000, in thousandths
AmountLimit == 1000000000

\* line 14: Field(..., gt=0, le=1000000) (faulty variant: ge=0)
AmountInRange_GeMut(amount) == amount >= 0 /\ amount <= AmountLimit
AmountInRange(amount) == amount > 0 /\ amount <= AmountLimit

\* lines 17-23: validate_amount returns the amount in cents
validate_amount(v) == RoundHalfUpDiv(v, 10)

\* lines 62-66: amount / divisor is amount * num / den
\* (faulty variant: a week as a quarter of a month)
Divisor_WeekFourMut(duration) ==
    CASE duration = "daily" -> [num |-> 1, den |-> 30]
      [] duration = "weekly" -> [num |-> 1, den |-> 4]
      [] OTHER -> [num |-> 1, den |-> 1]
Divisor(duration) ==
    CASE duration = "daily" -> [num |-> 1, den |-> 30]
      [] duration = "weekly" -> [num |-> 100, den |-> 433]
      [] OTHER -> [num |-> 1, den |-> 1]

\* lines 72-78, in hundredths (faulty variants: food at 40%; four fifths of
\* the budget to the two savings categories)
percentages_SaverMut ==
    [food |-> 10, transportation |-> 5, utilities |-> 5,
     emergency_fund |-> 50, discretionary |-> 30]
percentages_FoodMut ==
    [food |-> 40, transportation |-> 15, utilities |-> 20,
     emergency_fund |-> 20, discretionary |-> 15]
percentages ==
    [food |-> 30, transportation |-> 15, utilities |-> 20,
     emergency_fund |-> 20, discretionary |-> 15]

Categories == DOMAIN percentages

\* lines 57-100: the body of calculate_budget for a validated request
BudgetBreakdown(amount, duration) ==
    LET divisor == Divisor(duration)
        adjusted_amount == MulDiv(amount, divisor.num, divisor.den)
        categories == [c \in Categories |->
                          MulDiv(adjusted_amount, percentages[c], 100)]
    IN [status |-> 200,
        adjusted_amount |-> adjusted_amount,
        categories |-> categories,
        total_essential |-> categories.food + categories.transportation
                              + categories.utilities,
        total_savings |-> categories.emergency_fund + categories.discretionary]

\* lines 13-23 and 50-51: the request model, then the handler
calculate_budget ==
    /\ request.service = "budget"
    /\ response = NoResponse
    /\ response' =
          IF AmountInRange(request.amount) /\ request.duration \in Durations
          THEN BudgetBreakdown(validate_amount(request.amount), request.duration)
          ELSE ValidationError
    /\ UNCHANGED <<request, notCalc>>

\* the amounts posted: every amount up to MaxAmountCents with a third
\* decimal of 0, 4 or 5, the spec's example, and the amounts around the limit
AmountInputs ==
    {10 * c + d : c \in (-1)..MaxAmountCents, d \in {0, 4, 5}}
    \cup {30000000, AmountLimit - 10, AmountLimit - 1, AmountLimit,
          AmountLimit + 1, 1000001000}

BudgetRequests ==
    [service : {"budget"}, amount : AmountInputs,
     duration : Durations \cup {"yearly"}]

\* ---- savings-service

\* Decimal division digit by digit: the quotient n / d to k decimals, as a
\* whole number of units of 10^-k, and what is left over (n >= 0, d > 0)
RECURSIVE LongDiv(_, _, _)
LongDiv(n, d, k) ==
    IF k = 0 THEN [q |-> n \div d, r |-> n % d]
    ELSE LET p == LongDiv(n, d, k - 1)
         IN [q |-> p.q * 10 + (p.r * 10) \div d, r |-> (p.r * 10) % d]

\* (n / d).quantize(10^-k, rounding=ROUND_HALF_UP), in units of 10^-k
DivHalfUp(n, d, k) ==
    LET p == LongDiv(n, d, k) IN IF 2 * p.r >= d THEN p.q + 1 ELSE p.q

Max(a, b) == IF a >= b THEN a ELSE b

\* line 49
ProjectionMonths == <<1, 2, 3, 6, 12>>

\* lines 47-53: monthly_savings (thousandths) times months, in cents
Projection(monthly_savings, months) == RoundHalfUpDiv(monthly_savings * months, 10)

\* line 62: min(progress, Decimal("100")), in tenths of a percent
\* (faulty variant: no cap)
Capped_NoCapMut(progress) == progress
Capped(progress) == Min(progress, 1000)

\* lines 55-62: emergency_fund / current_goal * 100 to one decimal, capped
Progress(emergency_fund, current_goal) ==
    IF current_goal = 0 THEN 0
    ELSE Capped(DivHalfUp(emergency_fund, current_goal, 3))

\* lines 87-91: whole months, rounded half-up, 999 when nothing is saved
\* (the variant that rounds up to the next whole month)
MonthsToGoal_CeilMut(remaining, monthly_savings) ==
    IF monthly_savings > 0
    THEN (remaining + monthly_savings - 1) \div monthly_savings
    ELSE 999
MonthsToGoal(remaining, monthly_savings) ==
    IF monthly_savings > 0
    THEN RoundHalfUpDiv(remaining, monthly_savings)
    ELSE 999

\* lines 7-10: the constraints of SavingsRequest
SavingsValid(r) ==
    r.monthly_savings > 0 /\ r.emergency_fund >= 0 /\ r.current_goal > 0

\* lines 46-117: the body of calculate_savings_forecast; of the what-if
\* scenarios monthly_interest_gain, which no other value depends on, is
\* left out
SavingsForecast(r) ==
    LET remaining_to_goal == Max(0, r.current_goal - r.emergency_fund)
        months_to_goal == MonthsToGoal(remaining_to_goal, r.monthly_savings)
        \* monthly_savings * 1.1 is monthly_savings * 11 / 10
        months_to_goal_increased ==
            RoundHalfUpDiv(remaining_to_goal * 10, r.monthly_savings * 11)
        monthly_savings_increase == RoundHalfUpDiv(r.monthly_savings, 100)
    IN [status |-> 200,
        monthly_projections |->
            [i \in DOMAIN ProjectionMonths |->
                Projection(r.monthly_savings, ProjectionMonths[i])],
        emergency_fund_progress |-> Progress(r.emergency_fund, r.current_goal),
        monthly_10pct_more |-> monthly_savings_increase,
        yearly_10pct_more |-> monthly_savings_increase * 12,
        months_to_goal |-> months_to_goal,
        months_with_increase |-> months_to_goal_increased,
        months_saved |-> Max(0, months_to_goal - months_to_goal_increased)]

calculate_savings_forecast ==
    /\ request.service = "savings"
    /\ response = NoResponse
    /\ response' = IF SavingsValid(request)
                   THEN SavingsForecast(request) ELSE ValidationError
    /\ UNCHANGED <<request, notCalc>>

\* the values posted, in thousandths: the small ones, which meet every
\* rounding case, and those of the spec's example (2000, 5000, 50000)
SavingsRequests ==
    [service : {"savings"},
     monthly_savings : (-1)..MaxSavings,
     emergency_fund : (-1)..MaxFund,
     current_goal : 0..MaxGoal]
    \cup
    [service : {"savings"},
     monthly_savings : {2000000, 2100000},
     emergency_fund : {5000000, 60000000},
     current_goal : {50000000}]

\* ---- insights-service
\* amounts in cents, emergency_fund_progress in thousandths of a percent,
\* savings_rate and health_score (both quantized to 0.1) in tenths

\* line 57: sum(categories.values())
RECURSIVE Sum(_)
Sum(seq) == IF seq = <<>> THEN 0 ELSE Head(seq) + Sum(Tail(seq))

\* lines 58-63: total_savings / total_budget * 100 quantized to 0.1
SavingsRate(total_savings, total_budget) ==
    IF total_budget = 0 THEN 0 ELSE DivHalfUp(total_savings, total_budget, 3)

\* lines 68-70: savings_rate * 0.6 + emergency_progress * 0.4 quantized to
\* 0.1 (faulty variant: the weights exchanged)
HealthScore_SwappedMut(savings_rate, emergency_progress) ==
    RoundHalfUpDiv(400 * savings_rate + 6 * emergency_progress, 1000)
HealthScore(savings_rate, emergency_progress) ==
    RoundHalfUpDiv(600 * savings_rate + 4 * emergency_progress, 1000)

\* lines 73-77
HealthStatus(health_score) ==
    IF health_score >= 800 THEN "excellent"
    ELSE IF health_score >= 600 THEN "on_track"
    ELSE "needs_improvement"

\* lines 84-114: the types of the two insights
InsightTypes(savings_rate, emergency_progress) ==
    << IF emergency_progress >= 75000 THEN "success"
       ELSE IF emergency_progress >= 25000 THEN "info"
       ELSE "warning",
       IF savings_rate >= 200 THEN "success" ELSE "warning" >>

\* lines 54-121: analyze_budget, whole
BudgetInsights(r) ==
    LET total_budget == Sum(r.categories)
        savings_rate == SavingsRate(r.total_savings, total_budget)
        emergency_progress == r.emergency_fund_progress
        health_score == HealthScore(savings_rate, emergency_progress)
    IN [status |-> 200,
        savings_rate |-> savings_rate,
        health_score |-> health_score,
        health_status |-> HealthStatus(health_score),
        insights |-> InsightTypes(savings_rate, emergency_progress)]

analyze_budget ==
    /\ request.service = "insights"
    /\ response = NoResponse
    /\ response' = BudgetInsights(request)
    /\ UNCHANGED <<request, notCalc>>

\* the bodies posted: any amounts (the request model constrains none of
\* them), progress values among which 0.125 meets a rounding tie
InsightsRequests ==
    [service : {"insights"},
     categories : {<<a, b>> : a \in 0..MaxCategory, b \in {0, 1}},
     total_savings : 0..MaxTotalSavings,
     emergency_fund_progress :
        {0, 125, 10000, 25000, 50000, 75000, 99950, 100000}]

\* ---- the service chain: the allocator's answer posted to the scorer

\* the emergency_fund_progress of the savings data sent along: values of
\* [0, 100], its two ends among them, and one beyond it
ChainProgress == {0, 125, 50000, 100000, 200000}

\* test_comprehensive.py 265-286: the body of a 200 answer of
\* /calculate becomes the budget_breakdown of the body posted to /analyze
service_chain ==
    /\ request.service = "budget"
    /\ response.status = 200
    /\ \E progress \in ChainProgress :
          request' =
             [service |-> "insights",
              budget_breakdown |-> response,
              categories |-> << response.categories.food,
                                response.categories.transportation,
                                response.categories.utilities,
                                response.categories.emergency_fund,
                                response.categories.discretionary >>,
              total_savings |-> response.total_savings,
              emergency_fund_progress |-> progress]
    /\ response' = NoResponse
    /\ UNCHANGED notCalc

----------------------------------------------------------------------------
(* The gateway's insights proxy with AI enhancement (gateway.py 523-624) *)

\* the lists of a 200 answer of the insights service
InsightsResults ==
    {[insights |-> <<"rule_emergency", "rule_savings">>, recommendations |-> r] :
        r \in {<<>>, <<"rule_recommendation">>}}

\* a value under a key of the AI's JSON object: the key absent, a value that
\* cannot be iterated (a number), or a list
FieldValues ==
    {[kind |-> "absent", items |-> <<>>], [kind |-> "scalar", items |-> <<>>],
     [kind |-> "list", items |-> <<>>], [kind |-> "list", items |-> <<"ai">>]}

NoField == [kind |-> "absent", items |-> <<>>]

\* what json.loads can give: an object, an array, a number
AIValues ==
    [kind : {"dict"}, enhanced_insights : FieldValues,
     ai_recommendations : FieldValues]
    \cup [kind : {"array", "number"}, enhanced_insights : {NoField},
          ai_recommendations : {NoField}]

NoValue == [kind |-> "none", enhanced_insights |-> NoField,
            ai_recommendations |-> NoField]

\* ai_response.choices[0].message.content: nothing, text that is no JSON,
\* or JSON text
AIContents ==
    {[kind |-> "empty", value |-> NoValue], [kind |-> "text", value |-> NoValue]}
    \cup [kind : {"json"}, value : AIValues]

NoContent == [kind |-> "none", value |-> NoValue]
NotReturned == [kind |-> "none", body |-> <<>>, ai_fields |-> {}]

\* line 620: return insights_data
Standard == [kind |-> "response", body |-> insights_data, ai_fields |-> {}]

\* lines 617-618: the except of the enhancement, then line 620
AI_Fallback ==
    /\ ai_pc' = "done"
    /\ ai_failed' = TRUE
    /\ returned' = Standard
    /\ UNCHANGED <<insights_data, rule_based, ai_content>>

\* lines 523-542: the insights service answers 200 with d; the enhancement
\* is tried when GROQ_API_KEY is set and the body has a budget_breakdown
Insights_Analyze(d, enhance) ==
    /\ ai_pc = "idle"
    /\ insights_data' = d
    /\ rule_based' = d
    /\ IF enhance
       THEN ai_pc' = "prepare" /\ UNCHANGED returned
       ELSE ai_pc' = "done" /\ returned' = [kind |-> "response", body |-> d,
                                            ai_fields |-> {}]
    /\ UNCHANGED <<ai_content, ai_failed, notAI>>

\* lines 543-578: the import, the client, the prompt
AI_Prepare(ok) ==
    /\ ai_pc = "prepare"
    /\ IF ok
       THEN ai_pc' = "completion"
            /\ UNCHANGED <<insights_data, rule_based, ai_content, ai_failed,
                           returned>>
       ELSE AI_Fallback
    /\ UNCHANGED notAI

\* lines 580-595: chat.completions.create returns content or raises
AI_Completion(ok, content) ==
    /\ ai_pc = "completion"
    /\ IF ok
       THEN /\ ai_content' = content
            /\ IF content.kind = "empty"
               THEN ai_pc' = "done" /\ returned' = Standard
               ELSE ai_pc' = "parse" /\ UNCHANGED returned
            /\ UNCHANGED <<insights_data, rule_based, ai_failed>>
       ELSE AI_Fallback
    /\ UNCHANGED notAI

\* line 598: json.loads of the content
AI_Parse ==
    /\ ai_pc = "parse"
    /\ IF ai_content.kind = "json"
       THEN ai_pc' = "merge_insights"
            /\ UNCHANGED <<insights_data, rule_based, ai_content, ai_failed,
                           returned>>
       ELSE AI_Fallback
    /\ UNCHANGED notAI

\* 'key' in ai_data raises for a number, is false for an array; extend
\* raises for a value that cannot be iterated
MergeRaises(ai_data, field) ==
    ai_data.kind = "number" \/ (ai_data.kind = "dict" /\ field.kind = "scalar")

\* lines 600-604: enhanced_insights = insights_data.copy() copies the dict,
\* not its lists, so the extend is an extend of insights_data['insights']
AI_MergeInsights ==
    /\ ai_pc = "merge_insights"
    /\ LET ai_data == ai_content.value
           field == ai_data.enhanced_insights
       IN IF MergeRaises(ai_data, field)
          THEN AI_Fallback
          ELSE /\ insights_data' =
                    [insights_data EXCEPT !.insights = @ \o field.items]
               /\ ai_pc' = "merge_recommendations"
               /\ UNCHANGED <<rule_based, ai_content, ai_failed, returned>>
    /\ UNCHANGED notAI

\* lines 606-608
AI_MergeRecommendations ==
    /\ ai_pc = "merge_recommendations"
    /\ LET ai_data == ai_content.value
           field == ai_data.ai_recommendations
       IN IF MergeRaises(ai_data, field)
          THEN AI_Fallback
          ELSE /\ insights_data' =
                    [insights_data EXCEPT !.recommendations = @ \o field.items]
               /\ ai_pc' = "merge_fields"
               /\ UNCHANGED <<rule_based, ai_content, ai_failed, returned>>
    /\ UNCHANGED notAI

\* lines 610-615: ai_data.get raises for an array; the new keys go into
\* the copy, the lists it returns are the shared ones
AI_MergeFields ==
    /\ ai_pc = "merge_fields"
    /\ IF ai_content.value.kind = "dict"
       THEN /\ ai_pc' = "done"
            /\ returned' = [kind |-> "response", body |-> insights_data,
                            ai_fields |-> {"risk_assessment", "opportunities",
                                           "ai_enhanced"}]
            /\ UNCHANGED <<insights_data, rule_based, ai_content, ai_failed>>
       ELSE AI_Fallback
    /\ UNCHANGED notAI

\* no insights request in the gateway
IdleEnhancer ==
    /\ ai_pc = "idle"
    /\ insights_data = [insights |-> <<>>, recommendations |-> <<>>]
    /\ rule_based = [insights |-> <<>>, recommendations |-> <<>>]
    /\ ai_content = NoContent
    /\ ai_failed = FALSE
    /\ returned = NotReturned

----------------------------------------------------------------------------
(* Specifications *)

\* ---- one circuit breaker and its callers

Init ==
    /\ now = StartTime
    /\ InitCB
    /\ DefaultLimiter
    /\ config = DefaultRetryConfig
    /\ IdleRetry
    /\ IdleClient
    /\ IdleGateway
    /\ IdleCalculators
    /\ IdleEnhancer

TickCB == Tick /\ UNCHANGED <<cbVars, cbCallVars, notCB>>

\* calls of one breaker interleaving at the await of the wrapped function
Next ==
    \/ TickCB
    \/ \E c \in Slots : CB_Enter(c)
    \/ \E c \in Slots : CB_Return(c)
    \/ \E c \in Slots : CB_RaiseExpected(c)
    \/ \E c \in Slots : CB_RaiseOther(c)

Spec == Init /\ [][Next]_vars

\* calls of one breaker made one at a time
NextSeq ==
    \/ TickCB
    \/ \E c \in Slots : CB_EnterSeq(c)
    \/ \E c \in Slots : CB_Return(c)
    \/ \E c \in Slots : CB_RaiseExpected(c)
    \/ \E c \in Slots : CB_RaiseOther(c)

SpecSeq == Init /\ [][NextSeq]_vars

TypeOK ==
    /\ now \in StartTime..MaxTime
    /\ state \in {"CLOSED", "OPEN", "HALF_OPEN"}
    /\ failure_count \in Nat
    /\ outcome \in CallOutcomes

\* ---- one rate limiter and its clients

InitRL ==
    /\ now = StartTime
    /\ InitLimiter
    /\ IdleBreaker
    /\ config = DefaultRetryConfig
    /\ IdleRetry
    /\ IdleClient
    /\ IdleGateway
    /\ IdleCalculators
    /\ IdleEnhancer

TickRL == Tick /\ UNCHANGED <<rlVars, notRL>>

NextRL ==
    \/ TickRL
    \/ \E client_id \in Clients : is_allowed(client_id)

SpecRL == InitRL /\ [][NextRL]_vars

\* ---- one call of a decorated function

InitRetry ==
    /\ now = StartTime
    /\ IdleBreaker
    /\ DefaultLimiter
    /\ config \in RetryConfigs
    /\ IdleRetry
    /\ IdleClient
    /\ IdleGateway
    /\ IdleCalculators
    /\ IdleEnhancer

NextRetry ==
    \/ Retry_Call
    \/ Retry_FuncReturns
    \/ Retry_FuncRaises
    \/ Retry_FuncRaisesBase
    \/ Retry_SleepDone

SpecRetry == InitRetry /\ [][NextRetry]_vars

\* ---- one service client and the logical calls made on it, one at a time

InitSC ==
    /\ now = StartTime
    /\ InitClient
    /\ DefaultLimiter
    /\ config = DefaultRetryConfig
    /\ IdleRetry
    /\ IdleGateway
    /\ IdleCalculators
    /\ IdleEnhancer

NextSC ==
    \/ \E m \in {"GET", "POST", "PUT", "DELETE"} : SC_Call(m)
    \/ SC_HealthCheck
    \/ \E out \in HttpOutcomes :
          \E status \in StatusesOf(out) : SC_Response(out, status)
    \/ SC_Retry

SpecSC == InitSC /\ [][NextSC]_vars

\* ---- one application admitting requests through its limiter

InitGW ==
    /\ now = StartTime
    /\ InitLimiter
    /\ IdleBreaker
    /\ config = DefaultRetryConfig
    /\ IdleRetry
    /\ IdleClient
    /\ app \in Apps
    /\ gw_status = None
    /\ pending = 0
    /\ handled = 0
    /\ proxied = 0
    /\ IdleCalculators
    /\ IdleEnhancer

NextGW ==
    \/ TickRL
    \/ \E c \in Clients : log_requests(c)
    \/ \E proxy \in BOOLEAN, st \in HandlerStatuses : call_next(proxy, st)
    \/ \E c \in Clients : generate_tip(c)

SpecGW == InitGW /\ [][NextGW]_vars

\* ---- the calculator services, one request each

InitCalc ==
    /\ now = StartTime
    /\ IdleBreaker
    /\ DefaultLimiter
    /\ config = DefaultRetryConfig
    /\ IdleRetry
    /\ IdleClient
    /\ IdleGateway
    /\ request \in BudgetRequests \cup SavingsRequests \cup InsightsRequests
    /\ response = NoResponse
    /\ IdleEnhancer

NextCalc ==
    \/ calculate_budget
    \/ calculate_savings_forecast
    \/ analyze_budget

SpecCalc == InitCalc /\ [][NextCalc]_vars

\* ---- the service chain: a request to the allocator, its answer to the scorer

InitChain ==
    /\ now = StartTime
    /\ IdleBreaker
    /\ DefaultLimiter
    /\ config = DefaultRetryConfig
    /\ IdleRetry
    /\ IdleClient
    /\ IdleGateway
    /\ request \in BudgetRequests
    /\ response = NoResponse
    /\ IdleEnhancer

NextChain ==
    \/ calculate_budget
    \/ service_chain
    \/ analyze_budget

SpecChain == InitChain /\ [][NextChain]_vars

\* ---- one request to /api/insights/analyze

InitAI ==
    /\ now = StartTime
    /\ IdleBreaker
    /\ DefaultLimiter
    /\ config = DefaultRetryConfig
    /\ IdleRetry
    /\ IdleClient
    /\ IdleGateway
    /\ IdleCalculators
    /\ IdleEnhancer

NextAI ==
    \/ \E d \in InsightsResults, enhance \in BOOLEAN : Insights_Analyze(d, enhance)
    \/ \E ok \in BOOLEAN : AI_Prepare(ok)
    \/ \E ok \in BOOLEAN, content \in AIContents : AI_Completion(ok, content)
    \/ AI_Parse
    \/ AI_MergeInsights
    \/ AI_MergeRecommendations
    \/ AI_MergeFields

SpecAI == InitAI /\ [][NextAI]_vars

----------------------------------------------------------------------------
(* Properties of the circuit breaker *)

\* the step is a call of the wrapper arriving at lines 35-44
CallMade == invoked' # invoked \/ rejected' # rejected

\* the step is the end of a call that had been let through, ending as kind
Completed(kind) ==
    /\ \E c \in Slots : calls[c].pc = "inflight" /\ calls'[c].pc = "idle"
    /\ outcome' = kind

\* the step is the end of the call that moved the breaker to HALF_OPEN
TrialCompleted(kind) ==
    /\ \E c \in Slots : calls[c].pc = "inflight" /\ calls[c].trial /\ calls'[c].pc = "idle"
    /\ outcome' = kind

\* C1: once failure_threshold expected failures in a row have followed
\* CLOSED with failure_count = 0 the breaker is OPEN, and while it is OPEN
\* and less than recovery_timeout has passed since last_failure_time every
\* call made raises CircuitBreakerError, does not invoke the wrapped
\* function and leaves state, failure_count and last_failure_time alone.
C1_OpenFailsFast ==
    [][/\ (streak' = failure_threshold' /\ NoneInFlight') => state' = "OPEN"
       /\ (/\ state = "OPEN"
           /\ now - last_failure_time < recovery_timeout
           /\ CallMade)
          => /\ outcome' = "CircuitBreakerError"
             /\ rejected' = rejected + 1
             /\ invoked' = invoked
             /\ UNCHANGED <<state, failure_count, last_failure_time>>]_vars

\* C1 witness: a call was refused right after the threshold-th failure in a row
C1_Witness ==
    /\ streak = failure_threshold
    /\ state = "OPEN"
    /\ outcome = "CircuitBreakerError"
    /\ now - last_failure_time < recovery_timeout

C3_OnlyExpectedCounts ==
    [][/\ failure_count' > failure_count => Completed("raised_expected")
       /\ (state' = "OPEN" /\ state # "OPEN") => Completed("raised_expected")
       /\ Completed("raised_other")
          => UNCHANGED <<failure_count, last_failure_time, state>>]_vars

\* C3 witness: another exception went through a breaker that had counted failures
C3_Witness ==
    /\ outcome = "raised_other"
    /\ failure_count > 0

----------------------------------------------------------------------------
(* Properties of the rate limiter *)

\* the calls of one client so far
Log(c) == rl_log[c]

\* C4: for a client starting with no timestamps, each of the first
\* requests_per_window calls made less than window_seconds after the first
\* one returns true, the call after them made in that same window returns
\* false, and a call made window_seconds or more after the client's
\* previous call returns true.
C4_WindowCycle ==
    \A c \in Clients :
        /\ \A i \in 1..Len(Log(c)) :
              (i <= requests_per_window /\ Log(c)[i].t - Log(c)[1].t < window_seconds)
              => Log(c)[i].ok
        /\ (/\ Len(Log(c)) > requests_per_window
            /\ Log(c)[requests_per_window + 1].t - Log(c)[1].t < window_seconds)
           => ~Log(c)[requests_per_window + 1].ok
        /\ \A i \in 2..Len(Log(c)) :
              Log(c)[i].t - Log(c)[i - 1].t >= window_seconds => Log(c)[i].ok

\* C4 witness: a full window, a denied call in it, and an allowed call once
\* window_seconds have passed since the denied one
C4_Witness ==
    \E c \in Clients :
        LET n == requests_per_window IN
        /\ Len(Log(c)) >= n + 2
        /\ \A i \in 1..n : Log(c)[i].ok
        /\ Log(c)[n + 1].t - Log(c)[1].t < window_seconds
        /\ ~Log(c)[n + 1].ok
        /\ Log(c)[n + 2].t - Log(c)[n + 1].t >= window_seconds
        /\ Log(c)[n + 2].ok

\* the calls of client c that returned true at a time in [from, from + window_seconds)
AllowedIn(c, from) ==
    {i \in 1..Len(Log(c)) :
        /\ Log(c)[i].ok
        /\ Log(c)[i].t >= from
        /\ Log(c)[i].t < from + window_seconds}

\* C5: in every interval [t, t + window_seconds) at most requests_per_window
\* calls of one client returned true, and no stored list is longer than
\* requests_per_window.
C5_SlidingWindow ==
    /\ \A c \in Clients : \A from \in 0..now :
          Cardinality(AllowedIn(c, from)) <= requests_per_window
    /\ \A c \in DOMAIN requests : Len(requests[c]) <= requests_per_window

\* C5 witness: a client was denied with a full list and allowed again later,
\* the window having slid
C5_Witness ==
    \E c \in DOMAIN requests :
        /\ Len(requests[c]) = requests_per_window
        /\ \E i, j \in 1..Len(Log(c)) :
              /\ i < j
              /\ ~Log(c)[i].ok
              /\ Log(c)[j].ok
              /\ Log(c)[j].t - Log(c)[1].t >= window_seconds

----------------------------------------------------------------------------
(* Properties of the retry wrapper *)

\* C6: when func raised an Exception on its first k calls, k < max_attempts,
\* and the wrapper has ended, func returned on call k + 1 and the wrapper
\* returned that result: func was invoked exactly k + 1 times.
C6_ReturnsAfterKPlusOne ==
    (/\ r_pc = "done"
     /\ result.kind # "propagated"
     /\ func_raised < config.max_attempts)
    => /\ result = Returned(func_calls, 0)
       /\ func_calls = func_raised + 1

\* C6 witness: two failures, then the third invocation's result returned
C6_Witness ==
    /\ r_pc = "done"
    /\ func_raised = 2
    /\ func_calls = 3
    /\ result.kind = "returned"
    /\ Len(sleeps) = 2

\* C7: with max_attempts >= 1 func is never invoked more than max_attempts
\* times; the wrapper raises only after func raised on each of exactly
\* max_attempts invocations, it does so as soon as the last of them raised,
\* and what it raises is that last invocation's exception.
C7_RaisesLastAfterMaxAttempts ==
    config.max_attempts >= 1
    => /\ func_calls <= config.max_attempts
       /\ (r_pc = "done" /\ result.kind = "raised")
          => /\ func_calls = config.max_attempts
             /\ func_raised = func_calls
             /\ result = Raised(FuncException(func_calls))
       /\ func_raised = config.max_attempts
          => r_pc = "done" /\ result.kind = "raised"

\* C7 witness: three attempts, all raising, and the third exception raised
C7_Witness ==
    /\ r_pc = "done"
    /\ config.max_attempts = 3
    /\ func_raised = 3
    /\ result = Raised(FuncException(3))

----------------------------------------------------------------------------
(* Properties of the service client *)

\* the step ends a logical call that raises, its attempts used up
LogicalCallFailed == failed_calls' = failed_calls + 1

\* the step is a call of get/post/put/delete
LogicalCallMade == logical_calls' = logical_calls + 1

\* C8: a logical call that fails after its retry attempts adds exactly one
\* to the failure_count of the client's circuit breaker.
C8_FailureCountedOnce ==
    [][LogicalCallFailed => failure_count' = failure_count + 1]_vars

\* C9: once failure_threshold logical calls have failed, a call made before
\* recovery_timeout has elapsed issues no HTTP request.
C9_FailFastWhenOpen ==
    [][(/\ failed_calls >= failure_threshold
        /\ now - StartTime < recovery_timeout
        /\ LogicalCallMade)
       => /\ func_calls' = 0
          /\ r_pc' = "done"
          /\ result'.kind = "raised"]_vars

\* C10: when the backend answers the first attempt with a non-2xx status
\* the call ends there: one request, and that status raised to the caller.
C10_StatusErrorNotRetried ==
    (last_exception.detail = "Service error" /\ last_exception.by = 1)
    => /\ r_pc = "done"
       /\ func_calls = 1
       /\ result = Raised(last_exception)

\* the logical call in progress has ended raising to its caller
CallExhausted == r_pc = "done" /\ result.kind = "raised"

\* C11: a call whose attempts all time out or fail to connect makes
\* max_attempts attempts, max_attempts being that of the retry policy the
\* client was constructed with.
C11_AttemptsFollowPolicy ==
    (CallExhausted /\ all_unreachable)
    => func_calls = retry_config.max_attempts

\* C12: every outcome of an attempt has exactly one result: a 2xx response
\* is returned, a timeout raises 504, a connection failure 503, a non-2xx
\* response its own status, anything else 500; nothing else leaves an attempt.
C12_OutcomeMapping ==
    (http_outcome.out # "none" /\ r_pc # "calling") =>
        CASE http_outcome.out = "2xx" ->
                /\ r_pc = "done"
                /\ result = Returned(func_calls, http_outcome.status)
                /\ http_outcome.status \in SuccessStatuses
          [] http_outcome.out = "TimeoutException" ->
                last_exception = [by |-> func_calls, status_code |-> 504,
                                  detail |-> "Service timeout"]
          [] http_outcome.out = "ConnectError" ->
                last_exception = [by |-> func_calls, status_code |-> 503,
                                  detail |-> "Service unavailable"]
          [] http_outcome.out = "HTTPStatusError" ->
                /\ last_exception = [by |-> func_calls,
                                     status_code |-> http_outcome.status,
                                     detail |-> "Service error"]
                /\ http_outcome.status \in ErrorStatuses
          [] OTHER ->
                last_exception = [by |-> func_calls, status_code |-> 500,
                                  detail |-> "Unexpected error"]

C12_Witness ==
    /\ http_outcome = [out |-> "TimeoutException", status |-> None]
    /\ func_calls = 2
    /\ r_pc = "sleeping"
    /\ last_exception.status_code = 504

\* C13: health_check ends with True or False, never an exception: True only
\* when the GET finally yields a response of status 200, False for every
\* other end, which for a failing backend comes after the last attempt.
C13_HealthCheckNeverRaises ==
    /\ health \in {"none", "pending", "True", "False"}
    /\ (method = "health_check" /\ r_pc = "done") =>
          /\ health \in {"True", "False"}
          /\ health = "True" <=> http_outcome = [out |-> "2xx", status |-> 200]
          /\ result.kind = "raised" => func_calls = config.max_attempts
    /\ (method = "health_check" /\ r_pc # "done") => health = "pending"
    /\ method # "health_check" => health = "none"

C13_Witness ==
    /\ method = "health_check"
    /\ r_pc = "done"
    /\ health = "False"
    /\ http_outcome = [out |-> "2xx", status |-> 204]

----------------------------------------------------------------------------
(* Properties of admission *)

\* the step is a call of is_allowed(c) that returned false
Denied(c) ==
    /\ Len(rl_log'[c]) = Len(rl_log[c]) + 1
    /\ ~ rl_log'[c][Len(rl_log'[c])].ok

\* history: the calls of is_allowed that returned true
RECURSIVE AdmittedCount(_)
AdmittedCount(cs) ==
    IF cs = {} THEN 0
    ELSE LET c == CHOOSE x \in cs : TRUE
         IN Len(SelectSeq(rl_log[c], LAMBDA e : e.ok)) + AdmittedCount(cs \ {c})

\* C14: a request for which is_allowed returns false is answered 429 and
\* runs neither a route handler nor a downstream call; every handler run,
\* and so every proxied call, follows an is_allowed that returned true.
C14_DeniedNeverHandled ==
    /\ [](/\ handled + pending = AdmittedCount(Clients)
          /\ proxied <= handled)
    /\ [][\A c \in Clients :
            Denied(c) => /\ gw_status' = 429
                         /\ handled' = handled
                         /\ pending' = pending
                         /\ proxied' = proxied]_vars

C14_Witness ==
    /\ app = "gateway"
    /\ gw_status = 429
    /\ pending = 1
    /\ proxied = 1
    /\ \E c \in Clients : Len(rl_log[c]) = 3 /\ ~ rl_log[c][3].ok

----------------------------------------------------------------------------
(* Properties of the budget allocator *)

\* the allocator has answered the request with a breakdown
Allocated == request.service = "budget" /\ response.status = 200

\* the sum of the five category amounts
CategorySum ==
    response.categories.food + response.categories.transportation
    + response.categories.utilities + response.categories.emergency_fund
    + response.categories.discretionary

\* x is n / d rounded half-up to a whole number (n >= 0, d > 0)
IsHalfUp(x, n, d) == 2 * d * x - d <= 2 * n /\ 2 * n < 2 * d * x + d

\* C15: for every accepted amount and duration the five category amounts
\* are non-negative and their sum is within 5 cents of adjusted_amount.
C15_SumWithinFiveCents ==
    Allocated =>
        /\ \A c \in Categories : response.categories[c] >= 0
        /\ CategorySum - response.adjusted_amount <= 5
        /\ response.adjusted_amount - CategorySum <= 5

C15_Witness ==
    /\ Allocated
    /\ request.duration = "weekly"
    /\ CategorySum = response.adjusted_amount + 1

\* the shares the allocator is specified to give, in hundredths
SpecifiedShares ==
    [food |-> 30, transportation |-> 15, utilities |-> 20,
     emergency_fund |-> 20, discretionary |-> 15]

\* adj is cents / divisor rounded half-up, the divisor that of the duration
IsAdjusted(adj, cents, duration) ==
    CASE duration = "daily" -> IsHalfUp(adj, cents, 30)
      [] duration = "weekly" -> IsHalfUp(adj, 100 * cents, 433)
      [] duration = "monthly" -> adj = cents

\* C16: adjusted is amount / divisor rounded half-up to cents (30 daily,
\* 4.33 weekly, 1 monthly), each category is adjusted times its share
\* rounded half-up to cents, the totals are the sums of their categories;
\* 30000 monthly gives 9000, 4500, 6000, 6000, 4500, 19500 and 10500.
C16_AllocationFormula ==
    (Allocated /\ request.amount % 10 = 0) =>
        LET cents == request.amount \div 10
            r == response
        IN /\ cents <= 3000000 =>
                /\ IsAdjusted(r.adjusted_amount, cents, request.duration)
                /\ \A c \in Categories :
                      IsHalfUp(r.categories[c],
                               r.adjusted_amount * SpecifiedShares[c], 100)
           /\ r.total_essential = r.categories.food
                 + r.categories.transportation + r.categories.utilities
           /\ r.total_savings = r.categories.emergency_fund
                 + r.categories.discretionary
           /\ (cents = 3000000 /\ request.duration = "monthly") =>
                /\ r.categories =
                      [food |-> 900000, transportation |-> 450000,
                       utilities |-> 600000, emergency_fund |-> 600000,
                       discretionary |-> 450000]
                /\ r.total_essential = 1950000
                /\ r.total_savings = 1050000

C16_Witness ==
    /\ Allocated
    /\ request.amount = 30000000
    /\ request.duration = "weekly"
    /\ response.adjusted_amount = 692841
    /\ response.categories.food = 207852

\* C17: a request whose amount is <= 0 or > 1,000,000, or whose duration is
\* none of daily, weekly, monthly, gets a validation error and no breakdown.
C17_InvalidRejected ==
    (/\ request.service = "budget"
     /\ response # NoResponse
     /\ \/ request.amount <= 0
        \/ request.amount > 1000000 * 1000
        \/ request.duration \notin {"daily", "weekly", "monthly"})
    => /\ response.status = 422
       /\ DOMAIN response = {"status"}

C17_Witness ==
    /\ request.service = "budget"
    /\ request.amount = 0
    /\ request.duration = "monthly"
    /\ response = ValidationError

----------------------------------------------------------------------------
(* Properties of the savings forecaster *)

\* the forecaster has answered the request with a forecast
Forecast == request.service = "savings" /\ response.status = 200

\* the smallest whole number not below n / d (d > 0)
Ceiling(n, d) == -((-n) \div d)

\* C18: for every valid input months_to_goal is
\* ceil((goal - emergency_fund) / monthly_savings).
C18_MonthsIsCeiling ==
    Forecast =>
        response.months_to_goal =
            Ceiling(request.current_goal - request.emergency_fund,
                    request.monthly_savings)

\* C19: for every valid input monthly_projections is monthly_savings * n for
\* n = 1, 2, 3, 6, 12 in that order, each rounded half-up to cents, and
\* emergency_fund_progress is min(100, emergency_fund / goal * 100) rounded
\* to one decimal, within [0, 100].
C19_ProjectionsAndProgress ==
    Forecast =>
        LET r == response
            ms == request.monthly_savings
            fund == request.emergency_fund
            goal == request.current_goal
        IN /\ DOMAIN r.monthly_projections = 1..5
           /\ IsHalfUp(r.monthly_projections[1], ms * 1, 10)
           /\ IsHalfUp(r.monthly_projections[2], ms * 2, 10)
           /\ IsHalfUp(r.monthly_projections[3], ms * 3, 10)
           /\ IsHalfUp(r.monthly_projections[4], ms * 6, 10)
           /\ IsHalfUp(r.monthly_projections[5], ms * 12, 10)
           /\ r.emergency_fund_progress \in 0..1000
           /\ fund >= goal => r.emergency_fund_progress = 1000
           /\ (fund < goal /\ goal <= 1000) =>
                 IsHalfUp(r.emergency_fund_progress, 1000 * fund, goal)
           /\ (ms = 2000000 /\ fund = 5000000 /\ goal = 50000000) =>
                 /\ r.emergency_fund_progress = 100
                 /\ r.monthly_projections =
                       <<200000, 400000, 600000, 1200000, 2400000>>

C19_Witness ==
    /\ Forecast
    /\ request.monthly_savings = 5
    /\ request.emergency_fund = 1
    /\ request.current_goal = 16
    /\ response.monthly_projections = <<1, 1, 2, 3, 6>>
    /\ response.emergency_fund_progress = 63

----------------------------------------------------------------------------
(* Properties of the insights scorer *)

\* the scorer has answered the request
Scored == request.service = "insights" /\ response.status = 200

\* the status the thresholds 80 and 60 give a score in tenths
StatusOf(score) ==
    CASE score >= 800 -> "excellent"
      [] score >= 600 /\ score < 800 -> "on_track"
      [] OTHER -> "needs_improvement"

\* C20 as stated: health_score is (total_savings / total_budget * 100) * 0.6
\* + emergency_fund_progress * 0.4 rounded once, to one decimal, the rate
\* being 0 when total_budget is 0; the status follows the thresholds 80, 60.
C20_Original ==
    Scored =>
        LET tb == Sum(request.categories)
            ts == request.total_savings
            ep == request.emergency_fund_progress
        IN /\ tb = 0 => IsHalfUp(response.health_score, 4 * ep, 1000)
           /\ tb > 0 => IsHalfUp(response.health_score,
                                 600000 * ts + 4 * ep * tb, 1000 * tb)
           /\ response.health_status = StatusOf(response.health_score)

\* C20: savings_rate is total_savings / total_budget * 100 rounded half-up
\* to one decimal (0 when total_budget is 0), health_score is that rounded
\* rate * 0.6 + emergency_fund_progress * 0.4 rounded half-up to one
\* decimal, and the status follows the thresholds 80 and 60.
C20_HealthScore ==
    Scored =>
        LET tb == Sum(request.categories)
            ts == request.total_savings
            ep == request.emergency_fund_progress
            rate == response.savings_rate
        IN /\ tb = 0 => rate = 0
           /\ tb > 0 => IsHalfUp(rate, 1000 * ts, tb)
           /\ IsHalfUp(response.health_score, 600 * rate + 4 * ep, 1000)
           /\ response.health_status = StatusOf(response.health_score)

C20_Witness ==
    /\ Scored
    /\ request.categories = <<12, 0>>
    /\ request.total_savings = 1
    /\ request.emergency_fund_progress = 125
    /\ response.savings_rate = 83
    /\ response.health_score = 50

----------------------------------------------------------------------------
(* Properties of the insights proxy *)

\* C21: when the AI enhancement fails at any point, the caller gets exactly
\* the result of the insights service, with nothing of the AI's in it.
C21_FallbackIsRuleBased ==
    (ai_pc = "done" /\ ai_failed)
    => /\ returned.body = rule_based
       /\ returned.ai_fields = {}

----------------------------------------------------------------------------
(* Properties of the backoff *)

\* min(base_delay * exponential_base^i, max_delay) for the attempt of index i
SpecifiedDelay(i) ==
    LET grown == config.base_delay * Pow(config.exponential_base, i)
    IN IF grown < config.max_delay THEN grown ELSE config.max_delay

\* C22: the sleep after the failed attempt of index i is
\* min(base_delay * exponential_base^i, max_delay), times a factor of
\* [0.5, 1.0] with jitter on; it never exceeds max_delay; one sleep lies
\* between two consecutive invocations and none follows the final attempt.
C22_BackoffDelays ==
    /\ \A k \in 1..Len(sleeps) :
          /\ k - 1 < config.max_attempts - 1
          /\ sleeps[k] <= config.max_delay
          /\ IF config.jitter
             THEN /\ 2 * sleeps[k] >= SpecifiedDelay(k - 1)
                  /\ sleeps[k] <= SpecifiedDelay(k - 1)
             ELSE sleeps[k] = SpecifiedDelay(k - 1)
    /\ r_pc = "sleeping" => Len(sleeps) = func_calls
    /\ r_pc \in {"calling", "done"} /\ func_calls > 0
          => Len(sleeps) = func_calls - 1
    /\ func_calls = 0 => sleeps = <<>>

C22_Witness ==
    /\ r_pc = "done"
    /\ result.kind = "raised"
    /\ func_calls = 3
    /\ ~ config.jitter
    /\ sleeps = <<1000, 1500>>

----------------------------------------------------------------------------
(* Properties of the circuit breaker under interleaved calls *)

\* C23: the breaker goes from HALF_OPEN to CLOSED only in the step in which
\* the call that moved it from OPEN to HALF_OPEN returns.
C23_OnlyTrialCloses ==
    [][(state = "HALF_OPEN" /\ state' = "CLOSED")
       => TrialCompleted("returned")]_vars

\* C24: with calls interleaving at the await of the wrapped operation,
\* failure_count is the number of calls ended by an expected exception
\* since it was last reset, and the step that brings that number to
\* failure_threshold leaves the breaker OPEN.
C24_NoLostUpdate ==
    /\ [](failure_count = failures_since_reset)
    /\ [][(/\ Completed("raised_expected")
           /\ failures_since_reset' >= failure_threshold)
          => state' = "OPEN"]_vars

C24_Witness ==
    /\ state = "OPEN"
    /\ outcome = "raised_expected"
    /\ failure_count = 2
    /\ failures_since_reset = 2
    /\ \E c \in Slots : calls[c].pc = "inflight" /\ ~ calls[c].trial

----------------------------------------------------------------------------
(* Properties of the rate limiter's stored lists *)

\* the step is a call of is_allowed(c)
Called(c) == Len(rl_log'[c]) = Len(rl_log[c]) + 1

\* the list stored for c before the step, none being an empty one
Stored(c) == IF c \in DOMAIN requests THEN requests[c] ELSE <<>>

\* what the call of the step returned
ReturnedTrue(c) == rl_log'[c][Len(rl_log'[c])].ok

\* the call of the step kept the timestamps of kept and judged by them
PrunedTo(c, kept) ==
    /\ ReturnedTrue(c) <=> Len(kept) < requests_per_window
    /\ requests'[c] = IF ReturnedTrue(c) THEN Append(kept, now) ELSE kept

\* C25 as stated: a call removes the timestamps older than
\* now - window_seconds; one exactly window_seconds old is kept and counts.
C25_Original ==
    [][\A c \in Clients :
          Called(c) =>
              PrunedTo(c, SelectSeq(Stored(c),
                                    LAMBDA t : t >= now - window_seconds))]_vars

\* C25: a call removes the timestamps that are window_seconds old or older;
\* one exactly window_seconds old is removed and does not count for the call.
C25_PruningBoundary ==
    [][\A c \in Clients :
          Called(c) =>
              PrunedTo(c, SelectSeq(Stored(c),
                                    LAMBDA t : t > now - window_seconds))]_vars

C25_Witness ==
    \E c \in DOMAIN requests :
        /\ requests_per_window = 1
        /\ Len(Log(c)) = 2
        /\ Log(c)[2].t = Log(c)[1].t + window_seconds
        /\ Log(c)[2].ok
        /\ requests[c] = <<Log(c)[2].t>>

\* the times of the calls of c that returned true less than window_seconds
\* before its latest call, in the order of the calls
RecentAllowed(c) ==
    LET last == Log(c)[Len(Log(c))].t
        recent == SelectSeq(Log(c),
                            LAMBDA e : e.ok /\ last - e.t < window_seconds)
    IN [i \in 1..Len(recent) |-> recent[i].t]

\* C26: a call that returns false appends no timestamp, and the list stored
\* for a client is the times of its allowed calls within window_seconds of
\* its latest call, in non-decreasing order.
C26_OnlyAllowedRecorded ==
    /\ [](\A c \in DOMAIN requests :
            /\ requests[c] = RecentAllowed(c)
            /\ \A i, j \in 1..Len(requests[c]) :
                  i <= j => requests[c][i] <= requests[c][j])
    /\ [][\A c \in Clients :
            Denied(c) =>
                /\ Len(requests'[c]) <= Len(Stored(c))
                /\ \A i \in 1..Len(requests'[c]) :
                      \E j \in 1..Len(Stored(c)) : requests'[c][i] = Stored(c)[j]]_vars

C26_Witness ==
    \E c \in DOMAIN requests :
        /\ requests_per_window = 2
        /\ Len(Log(c)) = 3
        /\ Log(c)[1].ok /\ Log(c)[2].ok /\ ~ Log(c)[3].ok
        /\ Log(c)[3].t > Log(c)[2].t
        /\ requests[c] = <<Log(c)[1].t, Log(c)[2].t>>

----------------------------------------------------------------------------
(* Properties of the circuit breaker's states *)

\* C27: a success in CLOSED leaves failure_count as it is, failure_count is
\* reset only by a success in HALF_OPEN, and the breaker is not CLOSED once
\* failure_threshold expected failures have come since the last reset,
\* whatever successes came between them.
C27_FailuresAccumulate ==
    /\ [](state = "CLOSED" => failures_since_reset < failure_threshold)
    /\ [][/\ (state = "CLOSED" /\ Completed("returned"))
             => UNCHANGED <<failure_count, state>>
          /\ failure_count' < failure_count
             => /\ state = "HALF_OPEN"
                /\ Completed("returned")
                /\ failure_count' = 0]_vars

C27_Witness ==
    /\ failure_threshold = 2
    /\ state = "CLOSED"
    /\ outcome = "returned"
    /\ failure_count = 1
    /\ failures_since_reset = 1
    /\ last_failure_time = None

\* C28: with failure_threshold >= 1 and calls run one at a time, state is
\* CLOSED, OPEN or HALF_OPEN; CLOSED implies failure_count <
\* failure_threshold; OPEN and HALF_OPEN imply failure_count >=
\* failure_threshold and last_failure_time set; so one expected failure of
\* the HALF_OPEN trial call leaves OPEN with last_failure_time = now.
C28_StateInvariant ==
    /\ [](/\ state \in {"CLOSED", "OPEN", "HALF_OPEN"}
          /\ state = "CLOSED" => failure_count < failure_threshold
          /\ state \in {"OPEN", "HALF_OPEN"}
                => /\ failure_count >= failure_threshold
                   /\ last_failure_time # None)
    /\ [][(state = "HALF_OPEN" /\ TrialCompleted("raised_expected"))
          => /\ state' = "OPEN"
             /\ last_failure_time' = now]_vars

C28_Witness ==
    /\ state = "OPEN"
    /\ outcome = "raised_expected"
    /\ failure_count = failure_threshold + 1
    /\ last_failure_time = now
    /\ now > StartTime + recovery_timeout

\* C29: while the breaker is HALF_OPEN every call made is admitted to the
\* wrapped operation: none gets CircuitBreakerError, whatever the number
\* of calls in flight, and the state stays HALF_OPEN.
C29_HalfOpenAdmitsAll ==
    [][(state = "HALF_OPEN" /\ CallMade)
       => /\ invoked' = invoked + 1
          /\ rejected' = rejected
          /\ outcome' = outcome
          /\ state' = "HALF_OPEN"
          /\ \E c \in Slots :
                calls[c].pc = "idle" /\ calls'[c].pc = "inflight"]_vars

C29_Witness ==
    /\ state = "HALF_OPEN"
    /\ rejected = 0
    /\ invoked = 3
    /\ \A c \in Slots : calls[c].pc = "inflight"
    /\ \E c \in Slots : calls[c].trial

----------------------------------------------------------------------------
(* Properties of the allocator's answer passed to the scorer *)

\* the scorer has answered a body whose budget_breakdown the allocator made
ChainScored ==
    /\ request.service = "insights"
    /\ "budget_breakdown" \in DOMAIN request
    /\ response.status = 200

\* C30: for every breakdown the allocator produced from a valid amount and
\* duration and every emergency_fund_progress in [0, 100], the scorer's
\* health_score lies in [0, 100] and its status is never excellent: the
\* savings_rate of such a breakdown is too low for the score to reach 80
\* even at a progress of 100.
C30_ChainNeverExcellent ==
    (ChainScored /\ request.emergency_fund_progress \in 0..100000)
    => /\ response.health_score \in 0..1000
       /\ response.health_status # "excellent"
       /\ HealthScore(response.savings_rate, 100000) < 800

\* C30 witness: the breakdown of an amount of 0.04, the one with the highest
\* savings_rate (40.0), scored at a progress of 100: 64.0, on_track
C30_Witness ==
    /\ ChainScored
    /\ request.budget_breakdown.adjusted_amount = 4
    /\ request.emergency_fund_progress = 100000
    /\ response.savings_rate = 400
    /\ response.health_score = 640
    /\ response.health_status = "on_track"

====
